---- MODULE Spec2Model ----
(***************************************************************************)
(* Model of the indexing / interpolation / windowing core of the Alpha     *)
(* Economic Simulation visualizer (data_processor.py, visualizer.py).      *)
(*                                                                         *)
(* A dataset is the DataFrame main.py hands to the lookups: rows sorted    *)
(* ascending by block, relabelled 0..n-1 (reset_index), and its attrs,     *)
(* which hold block_interval when construction attached it; the lookups    *)
(* read it with attrs.get('block_interval', 1000).  Positions are 0-based  *)
(* as in the source; the TLA+ sequence holding the rows is 1-based, so row *)
(* i is data[i + 1].  In Spec every lookup is one action whose return      *)
(* value is kept in ret; in ReadSpec the lookups run in several threads,   *)
(* one step per access to the shared frame.                                *)
(* Blended fields are exact rationals [num, den] in lowest terms.          *)
(*                                                                         *)
(* The animation controller (main.py) is the pair of Dash callbacks        *)
(* control_animation and update_animation over the dcc.Store               *)
(* animation-state and the dcc.Interval animation-interval.  A callback    *)
(* reads its State when it is triggered and writes its Outputs when it     *)
(* returns; in between the callback runs on the server, where it reads and *)
(* writes the function attribute update_animation.last_block that all      *)
(* invocations share.  Speeds are counted in steps of the slider (tenths); *)
(* positions are Python floats (IEEE 754 binary64, round to nearest even), *)
(* kept as a 53-bit mantissa in limbs and a binary exponent.               *)
(***************************************************************************)
EXTENDS Integers, Sequences, FiniteSets

VARIABLES raw, frame, data, attrs, block_interval, max_block, blocks_per_second, call, ret,
          reads,
          animation_state, timer, slider, last_block, shown, tick_req, control_req, ticks

vars == <<raw, frame, data, attrs, block_interval, max_block, blocks_per_second, call, ret,
         reads,
          animation_state, timer, slider, last_block, shown, tick_req, control_req, ticks>>

\* the browser's store, timer and slider, the outputs on screen, the server's
\* update_animation.last_block, the callbacks in flight, the accepted ticks
controller == <<animation_state, timer, slider, last_block, shown, tick_req, control_req,
                ticks>>

\* what is fixed once the frame is built
dataset == <<raw, frame, data, attrs, block_interval, max_block, blocks_per_second>>

(***************************************************************************)
(* Program constants (config.py, data_processor.py)                        *)
(***************************************************************************)
BLOCKS_PER_DAY == 14400
CHART_WINDOW_SIZE == 15000
MAX_DATA_POINTS_PER_CHART == 40
DEFAULT_BLOCK_INTERVAL == 1000
\* main.py: the global block_interval before any data is seen
INITIAL_BLOCK_INTERVAL == 1000
ANIMATION_DURATION == 1800
FPS == 5
MAX_BLOCKS_PER_FRAME == 150
\* the floor of the timer interval in control_animation, in ms
MIN_TIMER_INTERVAL == 100
\* the speed slider moves in steps of 0.1: a speed is a number of tenths
SPEED_STEPS == 10
\* a Python float has a 53-bit mantissa
MANTISSA_BITS == 53
\* a mantissa is kept in limbs of LIMB_BITS bits, lowest first
LIMB_BITS == 14
LIMB_BASE == 2^LIMB_BITS

(***************************************************************************)
(* Bounds of the model                                                     *)
(***************************************************************************)
\* accepted animation ticks in one behaviour of the interleaved controller
MaxTicks == 2
\* small datasets: at most MaxRows rows, blocks on the grid {0..MaxGrid} * BlockStep
MaxRows == 5
MaxGrid == 5
BlockStep == 5000
\* dense datasets: MaxRows+1 .. MaxDenseRows rows, DenseStep blocks apart
MaxDenseRows == 90
DenseStep == 100
\* input files whose rows are not in block order: at most MaxRawRows rows
MaxRawRows == 3
\* server threads running lookups at the same time
MaxReaders == 2

(***************************************************************************)
(* Arithmetic helpers                                                      *)
(***************************************************************************)
Abs(x) == IF x < 0 THEN -x ELSE x

Max(a, b) == IF a >= b THEN a ELSE b

Min(a, b) == IF a <= b THEN a ELSE b

\* int(a / b) for b > 0: Python's int() truncates towards zero
IntDiv(a, b) == IF a >= 0 THEN a \div b ELSE -((-a) \div b)

\* int(round(a / b)) for b > 0: round() rounds halves to the even integer
RoundDiv(a, b) ==
    LET q == a \div b
        r == a % b
    IN  IF 2 * r < b THEN q
        ELSE IF 2 * r > b THEN q + 1
        ELSE IF q % 2 = 0 THEN q ELSE q + 1

RECURSIVE Gcd(_, _)
Gcd(a, b) == IF b = 0 THEN a ELSE Gcd(b, a % b)

\* the rational num/den (den > 0) in lowest terms
Rat(num, den) ==
    LET g == Gcd(Abs(num), den)
    IN  [num |-> num \div g, den |-> den \div g]

\* order on rationals (Python floats in the source)
RatLE(a, b) == a.num * b.den <= b.num * a.den

RatMin(a, b) == IF RatLE(a, b) THEN a ELSE b

RatMax(a, b) == IF RatLE(b, a) THEN a ELSE b

(***************************************************************************)
(* Python floats: a float is [m, e] with value m * 2^e, m a natural number *)
(* of exactly MANTISSA_BITS bits in limbs (or no limb, for 0.0); every     *)
(* operation rounds its exact result to the nearest float, ties to even    *)
(***************************************************************************)
\* the element of a one-element set: Only({e}) evaluates e once
Only(S) == CHOOSE v \in S : TRUE

\* limb i of a natural number, 0 beyond its length
Limb(x, i) == IF i >= 1 /\ i <= Len(x) THEN x[i] ELSE 0

\* the index of the highest non-zero limb, 0 for zero
TopLimb(x) ==
    IF \A i \in 1..Len(x) : x[i] = 0 THEN 0
    ELSE CHOOSE i \in 1..Len(x) : x[i] # 0 /\ \A j \in (i + 1)..Len(x) : x[j] = 0

\* a natural number without leading zero limbs
BigTrim(limbs) == Only({SubSeq(x, 1, TopLimb(x)) : x \in {limbs \o <<>>}})

\* carries propagated: every limb brought below LIMB_BASE
BigCarry(limbs) ==
    Only({LET n == Len(x)
              c[i \in 0..n] == IF i = 0 THEN 0 ELSE (x[i] + c[i - 1]) \div LIMB_BASE
          IN  BigTrim([i \in 1..(n + 2) |->
                          IF i <= n THEN (x[i] + c[i - 1]) % LIMB_BASE
                          ELSE IF i = n + 1 THEN c[n] % LIMB_BASE
                          ELSE c[n] \div LIMB_BASE])
          : x \in {limbs \o <<>>}})

\* a + b
BigAdd(a, b) ==
    Only({BigCarry([i \in 1..Max(Len(x), Len(y)) |-> Limb(x, i) + Limb(y, i)])
          : x \in {a}, y \in {b}})

\* a * b, for a mantissa a of at most four limbs
BigMul(a, b) ==
    Only({BigCarry([k \in 1..(Len(x) + Len(y)) |->
                       Limb(x, 1) * Limb(y, k) + Limb(x, 2) * Limb(y, k - 1)
                           + Limb(x, 3) * Limb(y, k - 2) + Limb(x, 4) * Limb(y, k - 3)])
          : x \in {a}, y \in {b}})

\* a * 2^k
BigShl(a, k) ==
    Only({BigCarry([i \in 1..(Len(x) + q) |-> IF i <= q THEN 0 ELSE x[i - q] * 2^s])
          : x \in {a}, q \in {k \div LIMB_BITS}, s \in {k % LIMB_BITS}})

\* a \div 2^k
BigShr(a, k) ==
    Only({IF Len(x) <= q THEN <<>>
          ELSE BigTrim([i \in 1..(Len(x) - q) |->
                           (x[i + q] \div 2^s)
                               + (Limb(x, i + q + 1) % 2^s) * 2^(LIMB_BITS - s)])
          : x \in {a}, q \in {k \div LIMB_BITS}, s \in {k % LIMB_BITS}})

\* the number of bits of a, 0 for zero
BigBitLen(a) ==
    Only({IF x = <<>> THEN 0
          ELSE LIMB_BITS * (Len(x) - 1)
                   + (CHOOSE k \in 1..LIMB_BITS : 2^(k - 1) <= x[Len(x)] /\ x[Len(x)] < 2^k)
          : x \in {a}})

\* bit j of x, bit 0 the lowest
BigBit(x, j) == (Limb(x, (j \div LIMB_BITS) + 1) \div 2^(j % LIMB_BITS)) % 2

\* TRUE when one of the k lowest bits of x is set
BigLowNonZero(x, k) ==
    \/ \E i \in 1..Min(Len(x), k \div LIMB_BITS) : x[i] # 0
    \/ Limb(x, (k \div LIMB_BITS) + 1) % 2^(k % LIMB_BITS) # 0

\* a <= b
BigLE(a, b) ==
    \E x \in {a}, y \in {b} :
        IF Len(x) # Len(y) THEN Len(x) < Len(y)
        ELSE \A i \in 1..Len(x) :
                 (x[i] # y[i] /\ \A j \in (i + 1)..Len(x) : x[j] = y[j]) => x[i] < y[i]

\* the limbs of an integer
BigFromInt(n) ==
    BigTrim(<<n % LIMB_BASE, (n \div LIMB_BASE) % LIMB_BASE, n \div (LIMB_BASE * LIMB_BASE)>>)

\* the integer of at most three limbs
BigToInt(a) ==
    Only({Limb(x, 1) + Limb(x, 2) * LIMB_BASE + Limb(x, 3) * LIMB_BASE * LIMB_BASE
          : x \in {a}})

\* quotient and remainder of a by an integer d below 2^17
BigDivSmall(a, d) ==
    Only({LET n == Len(x)
              r[i \in 1..(n + 1)] ==
                  IF i = n + 1 THEN 0 ELSE (r[i + 1] * LIMB_BASE + x[i]) % d
          IN  [quot |-> BigTrim([i \in 1..n |-> (r[i + 1] * LIMB_BASE + x[i]) \div d]),
               rem |-> r[1]]
          : x \in {a}})

\* the float 0.0; a float is m * 2^e with m of MANTISSA_BITS bits
FZero == [m |-> <<>>, e |-> 0]

\* mant * 2^E rounded to a float: to nearest, ties to the even mantissa
FRound(mant, E) ==
    Only({IF L = 0 THEN FZero
          ELSE IF L <= MANTISSA_BITS
          THEN [m |-> BigShl(M, MANTISSA_BITS - L), e |-> E - (MANTISSA_BITS - L)]
          ELSE Only({Only({IF BigBitLen(qq) > MANTISSA_BITS
                           THEN [m |-> BigShr(qq, 1), e |-> E + r + 1]
                           ELSE [m |-> qq, e |-> E + r]
                           : qq \in {IF BigBit(M, r - 1) = 1
                                         /\ (BigLowNonZero(M, r - 1) \/ BigBit(q, 0) = 1)
                                     THEN BigAdd(q, <<1>>) ELSE q}})
                     : q \in {BigShr(M, L - MANTISSA_BITS)}, r \in {L - MANTISSA_BITS}})
          : M \in {mant}, L \in {BigBitLen(mant)}})

\* float(n)
FFromInt(n) == FRound(BigFromInt(n), 0)

\* n / d of two integers: the quotient to 70 binary places with a sticky
\* bit for the remainder, then rounded once
FDivInt(n, d) ==
    Only({FRound(BigAdd(BigShl(dm.quot, 1), IF dm.rem # 0 THEN <<1>> ELSE <<>>), -71)
          : dm \in {BigDivSmall(BigShl(BigFromInt(n), 70), d)}})

\* a + b: the exact sum rounded
FAdd(a, b) ==
    Only({FRound(BigAdd(BigShl(x.m, x.e - E), BigShl(y.m, y.e - E)), E)
          : x \in {a}, y \in {b}, E \in {Min(a.e, b.e)}})

\* a * b: the exact product rounded
FMul(a, b) == Only({FRound(BigMul(x.m, y.m), x.e + y.e) : x \in {a}, y \in {b}})

\* a <= b
FLE(a, b) ==
    \E x \in {a}, y \in {b}, E \in {Min(a.e, b.e)} :
        BigLE(BigShl(x.m, x.e - E), BigShl(y.m, y.e - E))

\* int(a) of a float that is not negative
FFloor(a) ==
    Only({BigToInt(IF x.e >= 0 THEN BigShl(x.m, x.e) ELSE BigShr(x.m, -x.e)) : x \in {a}})

(***************************************************************************)
(* Dataset construction (load_data, then main.py's preprocessing)          *)
(***************************************************************************)
\* the value of the charted column in the raw record at position i
RateAt(i) == (i * i) + 1

\* a loaded row: the record at position i of the file (read_csv labels it i)
\* plus the derived day column
Row(i, b) ==
    [label |-> i, block |-> b, day |-> b \div BLOCKS_PER_DAY, exchange_rate |-> RateAt(i)]

\* the block column of a frame
BlocksOf(rows) == [i \in 1..Len(rows) |-> rows[i].block]

\* data.sort_values('block'): rows in ascending block order, keeping their
\* labels; rows of equal block keep their relative order (the sort used is
\* stable on frames of fewer than 17 rows, and larger frames of the model
\* have no equal blocks)
SortRows(rows) ==
    LET Before(j, k) ==
            \/ rows[j].block < rows[k].block
            \/ rows[j].block = rows[k].block /\ j < k
        Rank(k) == 1 + Cardinality({j \in 1..Len(rows) : Before(j, k)})
    IN  [i \in 1..Len(rows) |-> rows[CHOOSE k \in 1..Len(rows) : Rank(k) = i]]

\* data['block'].diff().dropna()
BlockDiffs(blocks) == [i \in 1..(Len(blocks) - 1) |-> blocks[i + 1] - blocks[i]]

\* Series.mode().iloc[0]: the smallest of the most frequent values
Mode(s) ==
    LET Count(v) == Cardinality({i \in DOMAIN s : s[i] = v})
        Vals == {s[i] : i \in DOMAIN s}
        Top == {v \in Vals : \A w \in Vals : Count(w) <= Count(v)}
    IN  CHOOSE v \in Top : \A w \in Top : v <= w

\* load_data, on a file that was read: the value it stores in
\* data.attrs['block_interval'] for the block column of the frame it returns
BlockInterval(blocks) ==
    IF Len(blocks) > 1 THEN Mode(BlockDiffs(blocks)) ELSE DEFAULT_BLOCK_INTERVAL

\* the rows load_data returns for the block column of a file: sorted when
\* there are 2 or more, still labelled by their position in the file
load_data(blocks) ==
    LET rows == [i \in 1..Len(blocks) |-> Row(i - 1, blocks[i])]
    IN  IF Len(rows) > 1 THEN SortRows(rows) ELSE rows

\* preprocess without reset_index: the rows keep the labels of the file
preprocess_keep_index(rows) == SortRows(rows)

\* main.py: data.sort_values('block').reset_index(drop=True)
preprocess(rows) ==
    LET sorted == SortRows(rows)
    IN  [i \in 1..Len(sorted) |-> [sorted[i] EXCEPT !.label = i - 1]]

\* the columns load_data checks for, and returns when no file can be read
REQUIRED_COLUMNS ==
    {"block", "network_rate", "generation_rate", "exchange_rate", "warehouse_capacity",
     "AlphaPoints_per_block_in", "AlphaPoints_per_block_out", "token_price"}

\* the columns and attributes of the frame load_data returns: for a file that
\* is read, its columns (the required ones) plus the derived ones and the
\* block_interval attribute; for a missing file, the required columns only
load_data_frame(found) ==
    IF found
    THEN [found |-> TRUE,
          columns |-> REQUIRED_COLUMNS \cup {"day", "net_alpha_points_flow"},
          attrs |-> {"block_interval"}]
    ELSE [found |-> FALSE, columns |-> REQUIRED_COLUMNS, attrs |-> {}]

\* an attrs dict is the set of its <<key, value>> pairs; d.get(key, default)
attrs_get(d, key, default) ==
    IF \E p \in d : p[1] = key THEN (CHOOSE p \in d : p[1] = key)[2] ELSE default

\* d[key] = value
attrs_set(d, key, value) == {p \in d : p[1] # key} \cup {<<key, value>>}

\* data.attrs of the frame load_data returns: block_interval for a file that
\* was read (also one with a header only), nothing for a missing file
load_data_attrs(found, blocks) ==
    IF found
    THEN {<<"block_interval", BlockInterval(BlocksOf(load_data(blocks)))>>}
    ELSE {}

\* main.py: data.attrs of the frame the lookups are handed.  A frame of no
\* rows is replaced by a new pd.DataFrame(columns=[...]), which has no attrs;
\* sort_values and reset_index keep the attrs of load_data's frame; with 2 or
\* more rows data.attrs['block_interval'] is set to the mode of the diffs
main_attrs(found, blocks) ==
    LET loaded == load_data(blocks)
    IN  IF Len(loaded) = 0 THEN {}
        ELSE IF Len(loaded) > 1
        THEN attrs_set(load_data_attrs(found, blocks), "block_interval",
                       Mode(BlockDiffs(BlocksOf(preprocess(loaded)))))
        ELSE load_data_attrs(found, blocks)

\* main.py: the global block_interval, 1000 unless the frame has 2 or more rows
main_block_interval(blocks) ==
    IF Len(blocks) > 1 THEN Mode(BlockDiffs(blocks)) ELSE INITIAL_BLOCK_INTERVAL

\* main.py: max_block = data['block'].max(), or 1 for an empty frame
MaxBlockOf(blocks) == IF Len(blocks) > 0 THEN blocks[Len(blocks)] ELSE 1

(***************************************************************************)
(* Inputs                                                                  *)
(***************************************************************************)
Grid == {k * BlockStep : k \in 0..MaxGrid}

IsSorted(s) == \A i \in 1..(Len(s) - 1) : s[i] <= s[i + 1]

\* ascending block columns, duplicates allowed, on the grid
SmallBlocks == {s \in UNION {[1..k -> Grid] : k \in 0..MaxRows} : IsSorted(s)}

\* evenly spaced block columns starting at block 0
DenseBlocks == {[i \in 1..k |-> (i - 1) * DenseStep] : k \in (MaxRows + 1)..MaxDenseRows}

\* evenly spaced block columns whose first block is not 0
ShiftedBlocks == {[i \in 1..k |-> i * DenseStep] : k \in (MaxRows + 1)..MaxDenseRows}

\* block columns of files whose rows are not in block order
UnsortedBlocks == {s \in UNION {[1..k -> Grid] : k \in 0..MaxRawRows} : ~IsSorted(s)}

BlockColumns == SmallBlocks \cup DenseBlocks \cup ShiftedBlocks \cup UnsortedBlocks

\* targets: half a grid step apart, from below the grid to above it
Targets == {k * (BlockStep \div 2) : k \in (-1)..(2 * MaxGrid + 3)}

(***************************************************************************)
(* Series values returned by the lookups                                   *)
(***************************************************************************)
\* pd.Series(): the empty row
EmptySeries ==
    [empty |-> TRUE, name |-> -1, block |-> 0, day |-> 0, exchange_rate |-> Rat(0, 1)]

\* data.iloc[i] / data.loc[i]: the stored row with label i
RowSeries(d, i) ==
    [empty |-> FALSE, name |-> i, block |-> d[i + 1].block, day |-> d[i + 1].day,
     exchange_rate |-> Rat(d[i + 1].exchange_rate, 1)]

\* data.iloc[i]['block']
BlockAt(d, i) == d[i + 1].block

\* (data.iloc[lo:hi]['block'] - t).abs().idxmin(): the LABEL of the first row of
\* the slice at minimal distance; labels are the positions in the whole frame
IdxMinAbs(d, lo, hi, t) ==
    CHOOSE i \in lo..(hi - 1) :
        \A j \in lo..(hi - 1) :
            \/ Abs(BlockAt(d, i) - t) < Abs(BlockAt(d, j) - t)
            \/ Abs(BlockAt(d, i) - t) = Abs(BlockAt(d, j) - t) /\ i <= j

(***************************************************************************)
(* get_frame_data: nearest-row lookup                                      *)
(***************************************************************************)
\* the row label computed by the try block of get_frame_data on a non-empty
\* frame, or the fault it raises: int(t / 0.0) raises on a zero interval
get_frame_idx(d, iv, t) ==
    IF iv = 0 THEN [raised |-> TRUE, path |-> "fault", idx |-> -1]
    ELSE
        LET n == Len(d)
            approx_idx == Max(0, Min(IntDiv(t, iv), n - 1))
        IN  IF Abs(BlockAt(d, approx_idx) - t) > iv * 2
            THEN [raised |-> FALSE, path |-> "scan", idx |-> IdxMinAbs(d, 0, n, t)]
            ELSE
                LET start_idx == Max(0, approx_idx - 2)
                    end_idx == Min(n, approx_idx + 3)
                IN  [raised |-> FALSE, path |-> "fast",
                     idx |-> start_idx + IdxMinAbs(d, start_idx, end_idx, t)]

\* get_frame_data(data, current_block): data.loc[idx], or pd.Series() for an
\* empty frame and from the except branch (a fault, or a label not in the frame)
get_frame_data(d, iv, t) ==
    IF Len(d) = 0 THEN [series |-> EmptySeries, path |-> "empty"]
    ELSE
        LET r == get_frame_idx(d, iv, t)
        IN  IF r.raised \/ r.idx > Len(d) - 1
            THEN [series |-> EmptySeries, path |-> r.path]
            ELSE [series |-> RowSeries(d, r.idx), path |-> r.path]

(***************************************************************************)
(* interpolate_data: bracket search and linear blend                       *)
(***************************************************************************)
\* (data.iloc[lo:hi]['block'] <= t)[::-1].idxmax() on a non-empty slice: the
\* LABEL of the last row of the slice with block <= t; when no row matches,
\* the label of the first row of the reversed slice, hi - 1
RevIdxMaxLE(d, lo, hi, t) ==
    LET M == {p \in lo..(hi - 1) : BlockAt(d, p) <= t}
    IN  IF M = {} THEN hi - 1 ELSE CHOOSE p \in M : \A q \in M : q <= p

\* the bracket indices computed by interpolate_data for a frame of 2 or more
\* rows and a non-zero interval
bracket(d, iv, t) ==
    LET n == Len(d)
        a0 == IntDiv(t, iv)
        approx_idx_before == Max(0, IF a0 >= n THEN n - 1 ELSE a0)
        actual_before_block == BlockAt(d, approx_idx_before)
        idx_before ==
            IF actual_before_block > t
            THEN
                LET search_start == Max(0, approx_idx_before - 5)
                    search_end == approx_idx_before
                IN  IF search_end - search_start > 0
                    THEN search_start + RevIdxMaxLE(d, search_start, search_end, t)
                    ELSE 0
            ELSE IF actual_before_block < t
            THEN
                IF approx_idx_before + 1 < n /\ BlockAt(d, approx_idx_before + 1) > t
                THEN approx_idx_before
                ELSE
                    LET search_start == approx_idx_before
                        search_end == Min(n, approx_idx_before + 5)
                    IN  IF \E p \in search_start..(search_end - 1) : BlockAt(d, p) <= t
                        THEN search_start + RevIdxMaxLE(d, search_start, search_end, t)
                        ELSE Min(n - 2, search_start)
            ELSE approx_idx_before
    IN  [idx_before |-> idx_before, idx_after |-> Min(n - 1, idx_before + 1)]

\* Factor taking the 'after' row when the two bracket rows share a block
Factor_one_when_equal(block_before, block_after, t) ==
    IF block_after = block_before THEN Rat(1, 1)
    ELSE Rat(t - block_before, block_after - block_before)

\* the interpolation factor as a rational
Factor(block_before, block_after, t) ==
    IF block_after = block_before THEN Rat(0, 1)
    ELSE Rat(t - block_before, block_after - block_before)

\* before + factor * (after - before)
Blend(before, after, factor) ==
    Rat(before * factor.den + factor.num * (after - before), factor.den)

\* interp_row with day copied from the 'before' row instead of recomputed
interp_row_stored_day(d, ib, ia, t) ==
    LET f == Factor(BlockAt(d, ib), BlockAt(d, ia), t)
    IN  [empty |-> FALSE, name |-> -1, block |-> t, day |-> d[ib + 1].day,
         exchange_rate |-> Blend(d[ib + 1].exchange_rate, d[ia + 1].exchange_rate, f)]

\* the row synthesized from rows ib and ia at target t
interp_row(d, ib, ia, t) ==
    LET f == Factor(BlockAt(d, ib), BlockAt(d, ia), t)
    IN  [empty |-> FALSE, name |-> -1, block |-> t, day |-> t \div BLOCKS_PER_DAY,
         exchange_rate |-> Blend(d[ib + 1].exchange_rate, d[ia + 1].exchange_rate, f)]

\* the bracket of a return that computed none
NoBracket == [idx_before |-> -1, idx_after |-> -1]

\* interpolate_short returning pd.Series() for a single row as well
interpolate_short_always_empty(d) ==
    [series |-> EmptySeries, path |-> "short", bracket |-> NoBracket,
     error_logged |-> FALSE]

\* the early return of interpolate_data on a frame of 0 or 1 rows
interpolate_short(d) ==
    [series |-> IF Len(d) = 0 THEN EmptySeries ELSE RowSeries(d, 0),
     path |-> "short", bracket |-> NoBracket, error_logged |-> FALSE]

\* interpolate_except without the debug_print of the error
interpolate_except_silent(d, iv, t, b) ==
    [series |-> get_frame_data(d, iv, t).series, path |-> "except", bracket |-> b,
     error_logged |-> FALSE]

\* the except branch of interpolate_data: the error is printed by debug_print
\* (DEBUG = True), then get_frame_data(data, current_block) is returned
interpolate_except(d, iv, t, b) ==
    [series |-> get_frame_data(d, iv, t).series, path |-> "except", bracket |-> b,
     error_logged |-> TRUE]

\* interpolate_data(data, current_block).  path names the return taken:
\* "short" (0 or 1 rows), "blend", or "except" (a fault inside the try block:
\* int() of a division by a zero interval, or data.iloc[idx_before] out of
\* bounds), which returns get_frame_data(data, current_block)
interpolate_data(d, iv, t) ==
    LET n == Len(d)
    IN  IF n <= 1 THEN interpolate_short(d)
        ELSE IF iv = 0 THEN interpolate_except(d, iv, t, NoBracket)
        ELSE
            LET b == bracket(d, iv, t)
            IN  IF b.idx_before < 0
                THEN [series |-> RowSeries(d, 0), path |-> "first", bracket |-> b,
                      error_logged |-> FALSE]
                ELSE IF b.idx_after >= n
                THEN [series |-> RowSeries(d, n - 1), path |-> "last", bracket |-> b,
                      error_logged |-> FALSE]
                ELSE IF b.idx_before > n - 1
                THEN interpolate_except(d, iv, t, b)
                ELSE [series |-> interp_row(d, b.idx_before, b.idx_after, t),
                      path |-> "blend", bracket |-> b, error_logged |-> FALSE,
                      factor |-> Factor(BlockAt(d, b.idx_before),
                                        BlockAt(d, b.idx_after), t)]

(***************************************************************************)
(* optimize_chart_data / find_current_value: chart window and marker       *)
(***************************************************************************)
\* the current-value marker of an unavailable value (the except branch)
NoValue == [none |-> TRUE, block |-> 0, value |-> 0]

\* find_current_value returning a zero marker instead of None on a fault
find_current_value_zero_marker(d, iv, t) ==
    IF Len(d) = 0 \/ iv = 0 THEN [none |-> FALSE, block |-> 0, value |-> 0]
    ELSE
        LET n == Len(d)
            guess == Min(n - 1, Max(0, RoundDiv(t, iv)))
            closest_idx ==
                IF Abs(BlockAt(d, guess) - t) > iv * 2
                THEN IdxMinAbs(d, 0, n, t)
                ELSE guess
        IN  [none |-> FALSE, block |-> BlockAt(d, closest_idx),
             value |-> d[closest_idx + 1].exchange_rate]

\* find_current_value(data_slice, current_block, column), the column being
\* exchange_rate.  The try block faults on an empty frame (iloc[-1]) and on a
\* zero interval; both return None
find_current_value(d, iv, t) ==
    IF Len(d) = 0 \/ iv = 0 THEN NoValue
    ELSE
        LET n == Len(d)
            guess == Min(n - 1, Max(0, RoundDiv(t, iv)))
            closest_idx ==
                IF Abs(BlockAt(d, guess) - t) > iv * 2
                THEN IdxMinAbs(d, 0, n, t)
                ELSE guess
        IN  [none |-> FALSE, block |-> BlockAt(d, closest_idx),
             value |-> d[closest_idx + 1].exchange_rate]

\* the positions selected by data.iloc[lo:hi] on n rows (lo >= 0; a negative
\* hi counts from the end, as Python slices do)
IlocSlice(n, lo, hi) ==
    LET stop == IF hi < 0 THEN Max(0, n + hi) ELSE Min(n, hi)
    IN  [j \in 1..Max(0, stop - lo) |-> lo + j - 1]

\* FilterWindow without the upper bound of the range
FilterWindowLowerOnly(d, subset, start_block, end_block) ==
    SelectSeq(subset, LAMBDA i : BlockAt(d, i) >= start_block)

\* data_subset[(block >= start_block) & (block <= end_block)], as row labels
FilterWindow(d, subset, start_block, end_block) ==
    SelectSeq(subset, LAMBDA i : BlockAt(d, i) >= start_block /\ BlockAt(d, i) <= end_block)

\* Stride keeping the n-th, 2n-th, ... row instead of the 1st, (n+1)-th, ...
StrideFromNth(w, n) == [j \in 1..(Len(w) \div n) |-> w[j * n]]

\* window_data.iloc[::n]
Stride(w, n) == [j \in 1..((Len(w) + n - 1) \div n) |-> w[(j - 1) * n + 1]]

\* the downsampling step of optimize_chart_data
Downsample(w) ==
    IF Len(w) > MAX_DATA_POINTS_PER_CHART
    THEN Stride(w, Len(w) \div MAX_DATA_POINTS_PER_CHART)
    ELSE w

\* optimize_chart_data(data_slice, current_block, max_block, 'exchange_rate').
\* window_data is the sequence of labels of the returned rows; filtered is the
\* window before downsampling.  The function has no try block: the fault of
\* int() on a division by a zero interval reaches the caller (raised)
optimize_chart_data(d, iv, t, mb) ==
    LET start_block == Max(0, t - CHART_WINDOW_SIZE \div 2)
        end_block == Min(mb, t + CHART_WINDOW_SIZE \div 2)
    IN  IF iv = 0
        THEN [raised |-> TRUE, window_data |-> <<>>, filtered |-> <<>>,
              start_block |-> start_block, end_block |-> end_block,
              current_value |-> NoValue]
        ELSE
            LET start_idx == Max(0, IntDiv(start_block, iv) - 1)
                end_idx == Min(Len(d), IntDiv(end_block, iv) + 2)
                data_subset == IlocSlice(Len(d), start_idx, end_idx)
                filtered == FilterWindow(d, data_subset, start_block, end_block)
            IN  [raised |-> FALSE, window_data |-> Downsample(filtered),
                 filtered |-> filtered,
                 start_block |-> start_block, end_block |-> end_block,
                 current_value |-> find_current_value(d, iv, t)]

(***************************************************************************)
(* State machine: the frame is built once; then one lookup at a time is    *)
(* called (as within one callback), and its result is used and discarded   *)
(***************************************************************************)
NoCall == [op |-> "none", current_block |-> 0]

NoResult == [path |-> "none"]

\* main.py: blocks_per_second = max_block / ANIMATION_DURATION, or 1 for a
\* frame with no rows
BlocksPerSecond(d, mb) ==
    IF Len(d) > 0 THEN FDivInt(mb, ANIMATION_DURATION) ELSE FFromInt(1)

\* the file is missing (load_data returns its empty frame) or holds a block
\* column; main.py sorts and relabels the rows
LoadFrame(found, blocks) ==
    /\ raw = blocks
    /\ frame = load_data_frame(found)
    /\ data = preprocess(load_data(blocks))
    /\ attrs = main_attrs(found, blocks)
    /\ block_interval = main_block_interval(BlocksOf(data))
    /\ max_block = MaxBlockOf(BlocksOf(data))
    /\ blocks_per_second = BlocksPerSecond(data, max_block)

\* update_animation has no attribute last_block; no chart is drawn
NoBlock == [has |-> FALSE, value |-> FZero]

\* update_animation.last_block holds v; the charts are drawn at v
Block(v) == [has |-> TRUE, value |-> v]

\* no callback in flight
NoRequest == [pending |-> FALSE]

\* create_layout: the store, the timer and the empty outputs of the page
ControllerInit ==
    /\ animation_state = [playing |-> FALSE, current_block |-> FZero, speed |-> SPEED_STEPS]
    /\ timer = [disabled |-> TRUE, interval |-> Rat(1000, FPS)]
    /\ slider = SPEED_STEPS
    /\ last_block = NoBlock
    /\ shown = [day_text |-> [kind |-> "none", day |-> 0, block |-> 0],
                chart_block |-> NoBlock]
    /\ tick_req = NoRequest
    /\ control_req = NoRequest
    /\ ticks = 0

\* data.attrs.get('block_interval', 1000): the interval the lookups use
data_block_interval == attrs_get(attrs, "block_interval", DEFAULT_BLOCK_INTERVAL)

\* the threads that run lookups
Readers == 1..MaxReaders

\* a thread with no lookup in progress; earlier: it has returned from one
Idle(earlier) ==
    [pc |-> "idle", earlier |-> earlier, op |-> "none", current_block |-> 0,
     max_block |-> 0, block_interval |-> 0, result |-> NoResult]

Init ==
    \E found \in BOOLEAN :
        \E blocks \in IF found THEN BlockColumns ELSE {<<>>} :
            /\ LoadFrame(found, blocks)
            /\ call = NoCall
            /\ ret = NoResult
            /\ reads = [r \in Readers |-> Idle(FALSE)]
            /\ ControllerInit

GetFrameData(t) ==
    /\ call = NoCall
    /\ call' = [op |-> "get_frame_data", current_block |-> t]
    /\ ret' = get_frame_data(data, data_block_interval, t)
    /\ UNCHANGED dataset
    /\ UNCHANGED reads
    /\ UNCHANGED controller

InterpolateData(t) ==
    /\ call = NoCall
    /\ call' = [op |-> "interpolate_data", current_block |-> t]
    /\ ret' = interpolate_data(data, data_block_interval, t)
    /\ UNCHANGED dataset
    /\ UNCHANGED reads
    /\ UNCHANGED controller

OptimizeChartData(t) ==
    /\ call = NoCall
    /\ call' = [op |-> "optimize_chart_data", current_block |-> t]
    /\ ret' = optimize_chart_data(data, data_block_interval, t, max_block)
    /\ UNCHANGED dataset
    /\ UNCHANGED reads
    /\ UNCHANGED controller

FindCurrentValue(t) ==
    /\ call = NoCall
    /\ call' = [op |-> "find_current_value", current_block |-> t]
    /\ ret' = find_current_value(data, data_block_interval, t)
    /\ UNCHANGED dataset
    /\ UNCHANGED reads
    /\ UNCHANGED controller

\* the caller has used the result: synthesized rows and windows are not kept
Discard ==
    /\ call # NoCall
    /\ call' = NoCall
    /\ ret' = NoResult
    /\ UNCHANGED dataset
    /\ UNCHANGED reads
    /\ UNCHANGED controller

Next ==
    \/ \E t \in Targets :
        \/ GetFrameData(t)
        \/ InterpolateData(t)
        \/ OptimizeChartData(t)
        \/ FindCurrentValue(t)
    \/ Discard

Spec == Init /\ [][Next]_vars

(***************************************************************************)
(* The lookups in threads: the development server answers each callback in *)
(* a thread of its own, so a lookup of update_animation and the lookups of *)
(* record_video run at the same time on the one frame.  A step is one      *)
(* access to the shared frame: its length, its attrs, its rows              *)
(***************************************************************************)
\* the four read paths
ReadOps == {"get_frame_data", "interpolate_data", "optimize_chart_data", "find_current_value"}

\* the files the threaded lookups are run on: no rows, one row, three rows in
\* and out of block order, two rows on one block (interval 0)
ReadBlockColumns ==
    {<<>>, <<0>>, <<0, BlockStep, 2 * BlockStep>>, <<2 * BlockStep, 0, BlockStep>>,
     <<BlockStep, BlockStep>>}

\* their targets: between two rows, and beyond the last row
ReadTargets == {BlockStep \div 2, 3 * BlockStep}

ReadInit ==
    /\ \E found \in BOOLEAN :
           \E blocks \in IF found THEN ReadBlockColumns ELSE {<<>>} :
               LoadFrame(found, blocks)
    /\ call = NoCall
    /\ ret = NoResult
    /\ reads = [r \in Readers |-> Idle(FALSE)]
    /\ ControllerInit

\* a caller in thread r calls a lookup on the global frame; the callers of
\* optimize_chart_data pass the global max_block.  get_frame_data and
\* interpolate_data start with len(data), the other two with data.attrs
ReadCall(r, op, t) ==
    /\ reads[r].pc = "idle"
    /\ reads' = [reads EXCEPT ![r] =
                     [@ EXCEPT !.pc = IF op \in {"get_frame_data", "interpolate_data"}
                                      THEN "len" ELSE "attrs",
                               !.op = op,
                               !.current_block = t,
                               !.max_block = IF op = "optimize_chart_data"
                                             THEN max_block ELSE 0]]
    /\ UNCHANGED <<call, ret>>
    /\ UNCHANGED dataset
    /\ UNCHANGED controller

\* get_frame_data: if len(data) == 0: return pd.Series();
\* interpolate_data: if len(data) <= 1: return pd.Series() or data.iloc[0]
ReadLen(r) ==
    /\ reads[r].pc = "len"
    /\ reads' = [reads EXCEPT ![r] =
                     IF reads[r].op = "get_frame_data" /\ Len(data) = 0
                     THEN [@ EXCEPT !.pc = "return",
                                    !.result = get_frame_data(data, reads[r].block_interval,
                                                              reads[r].current_block)]
                     ELSE IF reads[r].op = "interpolate_data" /\ Len(data) <= 1
                     THEN [@ EXCEPT !.pc = "return", !.result = interpolate_short(data)]
                     ELSE [@ EXCEPT !.pc = "attrs"]]
    /\ UNCHANGED <<call, ret>>
    /\ UNCHANGED dataset
    /\ UNCHANGED controller

\* ReadInterval with data.attrs.setdefault('block_interval', 1000) for the get
ReadInterval_setdefault(r) ==
    /\ reads[r].pc \in {"attrs", "marker_attrs", "except_attrs"}
    /\ attrs' = attrs_set(attrs, "block_interval", data_block_interval)
    /\ reads' = [reads EXCEPT ![r] =
                     [@ EXCEPT !.block_interval = data_block_interval,
                               !.pc = IF @ = "attrs" THEN "rows"
                                      ELSE IF @ = "marker_attrs" THEN "marker_rows"
                                      ELSE "except_rows"]]
    /\ UNCHANGED <<raw, frame, data, block_interval, max_block, blocks_per_second>>
    /\ UNCHANGED <<call, ret>>
    /\ UNCHANGED controller

\* block_interval = data.attrs.get('block_interval', 1000): at the start of a
\* lookup, in the find_current_value that optimize_chart_data calls last, and
\* in the get_frame_data that the except branch of interpolate_data calls
ReadInterval(r) ==
    /\ reads[r].pc \in {"attrs", "marker_attrs", "except_attrs"}
    /\ reads' = [reads EXCEPT ![r] =
                     [@ EXCEPT !.block_interval = data_block_interval,
                               !.pc = IF @ = "attrs" THEN "rows"
                                      ELSE IF @ = "marker_attrs" THEN "marker_rows"
                                      ELSE "except_rows"]]
    /\ UNCHANGED <<call, ret>>
    /\ UNCHANGED dataset
    /\ UNCHANGED controller

\* the rows of the frame are read with the interval the thread holds and the
\* result is built in objects of the thread (a dict, a filtered copy).
\* interpolate_data goes on to get_frame_data when its try block faults,
\* optimize_chart_data to find_current_value unless int() raised
ReadRows(r) ==
    /\ reads[r].pc \in {"rows", "marker_rows", "except_rows"}
    /\ reads' = [reads EXCEPT ![r] =
           LET iv == reads[r].block_interval
               t == reads[r].current_block
           IN  IF reads[r].pc = "marker_rows"
               THEN [@ EXCEPT !.pc = "return",
                              !.result = [@ EXCEPT !.current_value =
                                                       find_current_value(data, iv, t)]]
               ELSE IF reads[r].pc = "except_rows"
               THEN [@ EXCEPT !.pc = "return",
                              !.result = interpolate_except(data, iv, t, @.bracket)]
               ELSE IF reads[r].op = "get_frame_data"
               THEN [@ EXCEPT !.pc = "return", !.result = get_frame_data(data, iv, t)]
               ELSE IF reads[r].op = "find_current_value"
               THEN [@ EXCEPT !.pc = "return", !.result = find_current_value(data, iv, t)]
               ELSE IF reads[r].op = "interpolate_data"
               THEN [@ EXCEPT !.pc = IF interpolate_data(data, iv, t).path = "except"
                                     THEN "except_attrs" ELSE "return",
                              !.result = interpolate_data(data, iv, t)]
               ELSE [@ EXCEPT !.pc = IF optimize_chart_data(data, iv, t,
                                                            reads[r].max_block).raised
                                     THEN "return" ELSE "marker_attrs",
                              !.result = optimize_chart_data(data, iv, t,
                                                             reads[r].max_block)]]
    /\ UNCHANGED <<call, ret>>
    /\ UNCHANGED dataset
    /\ UNCHANGED controller

\* the lookup returns (or raises) to its caller, which reads the result
ReadReturn(r) ==
    /\ reads[r].pc = "return"
    /\ reads' = [reads EXCEPT ![r] = Idle(TRUE)]
    /\ UNCHANGED <<call, ret>>
    /\ UNCHANGED dataset
    /\ UNCHANGED controller

ReadNext ==
    \E r \in Readers :
        \/ \E op \in ReadOps, t \in ReadTargets : ReadCall(r, op, t)
        \/ ReadLen(r)
        \/ ReadInterval(r)
        \/ ReadRows(r)
        \/ ReadReturn(r)

\* lookups in MaxReaders threads, interleaved step by step
ReadSpec == ReadInit /\ [][ReadNext]_vars

(***************************************************************************)
(* Animation controller (main.py): control_animation, update_animation     *)
(***************************************************************************)
\* the values of the speed slider the model uses (min 0.5, max 2), in tenths
Speeds == {SPEED_STEPS \div 2, SPEED_STEPS, 2 * SPEED_STEPS}

\* the float the slider sends for a number of tenths
SliderValue == [s \in Speeds |-> FDivInt(s, SPEED_STEPS)]

\* the four Inputs of control_animation
Buttons == {"play-button", "pause-button", "reset-button", "speed-slider"}

\* the frames the interleaved controller is run on: no rows, one row at
\* block 0, rows one grid step apart
AnimBlockColumns == {<<>>, <<0>>, <<0, BlockStep>>, <<0, BlockStep, 2 * BlockStep>>}

\* the frame the controller is left to play on: a file with no rows
\* (max_block = 1, blocks_per_second = 1), whose animation takes 3 to 11 ticks
PlayBlockColumns == {<<>>}

\* timer_interval taking the smaller of the floor and the speed-scaled period
timer_interval_min(speed) ==
    RatMin(Rat(MIN_TIMER_INTERVAL, 1), Rat(1000 * SPEED_STEPS, FPS * speed))

\* control_animation: interval = max(100, (1000 / FPS) / current_state["speed"])
timer_interval(speed) ==
    RatMax(Rat(MIN_TIMER_INTERVAL, 1), Rat(1000 * SPEED_STEPS, FPS * speed))

\* control_animation(..., speed, current_state) triggered by button_id: the
\* store and the timer's disabled and interval it returns
control_animation(button_id, speed, current_state) ==
    LET state ==
            IF button_id = "play-button" THEN [current_state EXCEPT !.playing = TRUE]
            ELSE IF button_id = "pause-button" THEN [current_state EXCEPT !.playing = FALSE]
            ELSE IF button_id = "reset-button"
            THEN [current_state EXCEPT !.playing = FALSE, !.current_block = FZero]
            ELSE [current_state EXCEPT !.speed = speed]
    IN  [state |-> state,
         disabled |-> ~state.playing,
         interval |-> timer_interval(state.speed)]

\* (1 / FPS)
SecondsPerFrame == FDivInt(1, FPS)

\* update_animation: blocks_to_advance = min(MAX_BLOCKS_PER_FRAME,
\* blocks_per_second * (1 / FPS) * speed)
blocks_to_advance(bps, speed) ==
    Only({IF FLE(FFromInt(MAX_BLOCKS_PER_FRAME), x) THEN FFromInt(MAX_BLOCKS_PER_FRAME)
          ELSE x
          : x \in {FMul(FMul(bps, SecondsPerFrame), SliderValue[speed])}})

\* update_animation: new_block = current_block + blocks_to_advance
advance(state, bps) == FAdd(state.current_block, blocks_to_advance(bps, state.speed))

\* update_animation: new_block += block_interval when last_block == new_block
force_advance(lb, new_block, iv) ==
    IF lb = new_block THEN FAdd(new_block, FFromInt(iv)) ELSE new_block

\* update_animation's Outputs with the completion branch storing the position
\* reached instead of 0
update_animation_keeps_block(state, new_block, mb) ==
    IF FLE(FFromInt(mb), new_block)
    THEN [completed |-> TRUE,
          state |-> [state EXCEPT !.playing = FALSE, !.current_block = new_block],
          day_text |-> [kind |-> "complete", day |-> 0, block |-> 0],
          charts_updated |-> FALSE]
    ELSE [completed |-> FALSE,
          state |-> [state EXCEPT !.current_block = new_block],
          day_text |-> [kind |-> "day", day |-> FFloor(new_block) \div BLOCKS_PER_DAY,
                        block |-> FFloor(new_block)],
          charts_updated |-> TRUE]

\* update_animation's Outputs for the store it read and the new_block it
\* computed.  new_block >= max_block: "Simulation Complete", the store gets
\* playing False and current_block 0, the charts are left as they are
\* (dash.no_update); otherwise the store gets new_block, the text is
\* "Day: int(new_block // BLOCKS_PER_DAY) / Block: int(new_block)" and the
\* charts are drawn at new_block (the result of interpolate_data is not used).
update_animation(state, new_block, mb) ==
    IF FLE(FFromInt(mb), new_block)
    THEN [completed |-> TRUE,
          state |-> [state EXCEPT !.playing = FALSE, !.current_block = FZero],
          day_text |-> [kind |-> "complete", day |-> 0, block |-> 0],
          charts_updated |-> FALSE]
    ELSE [completed |-> FALSE,
          state |-> [state EXCEPT !.current_block = new_block],
          day_text |-> [kind |-> "day", day |-> FFloor(new_block) \div BLOCKS_PER_DAY,
                        block |-> FFloor(new_block)],
          charts_updated |-> TRUE]

\* the frames of the interleaved controller
AnimInit ==
    /\ \E blocks \in AnimBlockColumns : LoadFrame(TRUE, blocks)
    /\ call = NoCall
    /\ ret = NoResult
    /\ reads = [r \in Readers |-> Idle(FALSE)]
    /\ ControllerInit

\* a button is clicked or the slider moved to speed: the browser sends the
\* Inputs (the slider's value among them) and the store it holds now
ControlTrigger(button_id, speed) ==
    /\ control_req = NoRequest
    /\ IF button_id = "speed-slider" THEN speed # slider ELSE speed = slider
    /\ slider' = speed
    /\ control_req' = [pending |-> TRUE, at |-> "sent", button_id |-> button_id,
                       speed |-> speed, state |-> animation_state]
    /\ UNCHANGED <<animation_state, timer, last_block, shown, tick_req, ticks, call, ret>>
    /\ UNCHANGED dataset
    /\ UNCHANGED reads

\* control_animation on the server, reset: hasattr(update_animation, 'last_block')
ControlHasattr ==
    /\ control_req.pending
    /\ control_req.at = "sent"
    /\ control_req.button_id = "reset-button"
    /\ control_req' = [control_req EXCEPT !.at = IF last_block.has THEN "delattr"
                                                 ELSE "return"]
    /\ UNCHANGED <<animation_state, timer, slider, last_block, shown, tick_req, ticks>>
    /\ UNCHANGED <<call, ret>>
    /\ UNCHANGED dataset
    /\ UNCHANGED reads

\* control_animation on the server, reset: delattr(update_animation,
\* 'last_block'), an AttributeError when a tick has deleted it meanwhile
ControlDelattr ==
    /\ control_req.pending
    /\ control_req.at = "delattr"
    /\ control_req' = [control_req EXCEPT !.at = IF last_block.has THEN "return"
                                                 ELSE "error"]
    /\ last_block' = NoBlock
    /\ UNCHANGED <<animation_state, timer, shown, tick_req, ticks, call, ret, slider>>
    /\ UNCHANGED dataset
    /\ UNCHANGED reads

\* control_animation has returned: the browser writes the store and the timer
ControlReturn ==
    /\ control_req.pending
    /\ \/ control_req.at = "return"
       \/ control_req.at = "sent" /\ control_req.button_id # "reset-button"
    /\ \E out \in {control_animation(control_req.button_id, control_req.speed,
                                     control_req.state)} :
           /\ animation_state' = out.state
           /\ timer' = [disabled |-> out.disabled, interval |-> out.interval]
    /\ control_req' = NoRequest
    /\ UNCHANGED <<last_block, shown, tick_req, ticks, call, ret, slider>>
    /\ UNCHANGED dataset
    /\ UNCHANGED reads

\* control_animation has raised: no Output is written
ControlFailed ==
    /\ control_req.pending
    /\ control_req.at = "error"
    /\ control_req' = NoRequest
    /\ UNCHANGED <<animation_state, timer, slider, last_block, shown, tick_req, ticks>>
    /\ UNCHANGED <<call, ret>>
    /\ UNCHANGED dataset
    /\ UNCHANGED reads

\* the enabled timer fires: the browser sends the store it holds now
TickTrigger ==
    /\ ~timer.disabled
    /\ tick_req = NoRequest
    /\ tick_req' = [pending |-> TRUE, at |-> "sent", state |-> animation_state,
                    new_block |-> FZero, stuck |-> FALSE]
    /\ UNCHANGED <<animation_state, timer, slider, last_block, shown, control_req, ticks>>
    /\ UNCHANGED <<call, ret>>
    /\ UNCHANGED dataset
    /\ UNCHANGED reads

\* update_animation less than minimum_update_interval after the last one:
\* PreventUpdate, no Output is written
TickThrottled ==
    /\ tick_req.pending
    /\ tick_req.at = "sent"
    /\ tick_req' = NoRequest
    /\ UNCHANGED <<animation_state, timer, slider, last_block, shown, control_req, ticks>>
    /\ UNCHANGED <<call, ret>>
    /\ UNCHANGED dataset
    /\ UNCHANGED reads

\* update_animation on a store that is not playing: PreventUpdate
TickNotPlaying ==
    /\ tick_req.pending
    /\ tick_req.at = "sent"
    /\ ~tick_req.state.playing
    /\ tick_req' = NoRequest
    /\ UNCHANGED <<animation_state, timer, slider, last_block, shown, control_req, ticks>>
    /\ UNCHANGED <<call, ret>>
    /\ UNCHANGED dataset
    /\ UNCHANGED reads

\* update_animation accepted: new_block is computed and
\* hasattr(update_animation, 'last_block') evaluated.  bounded: the tick
\* counts against MaxTicks.
TickAdvance(bounded) ==
    /\ tick_req.pending
    /\ tick_req.at = "sent"
    /\ tick_req.state.playing
    /\ bounded => ticks < MaxTicks
    /\ tick_req' = [tick_req EXCEPT !.new_block = advance(tick_req.state, blocks_per_second),
                                    !.at = IF last_block.has THEN "compare" ELSE "store"]
    /\ ticks' = IF bounded THEN ticks + 1 ELSE ticks
    /\ UNCHANGED <<animation_state, timer, last_block, shown, control_req, call, ret, slider>>
    /\ UNCHANGED dataset
    /\ UNCHANGED reads

\* update_animation.last_block == new_block is evaluated (an AttributeError
\* when a reset has deleted the attribute meanwhile) and, when they are equal,
\* new_block += block_interval
TickCompare ==
    /\ tick_req.pending
    /\ tick_req.at = "compare"
    /\ tick_req' = IF ~last_block.has THEN [tick_req EXCEPT !.at = "error"]
                   ELSE [tick_req EXCEPT
                             !.stuck = (last_block.value = tick_req.new_block),
                             !.new_block = force_advance(last_block.value, tick_req.new_block,
                                                         block_interval),
                             !.at = "store"]
    /\ UNCHANGED <<animation_state, timer, slider, last_block, shown, control_req, ticks>>
    /\ UNCHANGED <<call, ret>>
    /\ UNCHANGED dataset
    /\ UNCHANGED reads

\* update_animation.last_block = new_block, then the test new_block >= max_block
TickStore ==
    /\ tick_req.pending
    /\ tick_req.at = "store"
    /\ last_block' = Block(tick_req.new_block)
    /\ tick_req' = [tick_req EXCEPT !.at = IF FLE(FFromInt(max_block), tick_req.new_block)
                                           THEN "hasattr" ELSE "return"]
    /\ UNCHANGED <<animation_state, timer, shown, control_req, ticks, call, ret, slider>>
    /\ UNCHANGED dataset
    /\ UNCHANGED reads

\* the completion branch: hasattr(update_animation, 'last_block')
TickHasattr ==
    /\ tick_req.pending
    /\ tick_req.at = "hasattr"
    /\ tick_req' = [tick_req EXCEPT !.at = IF last_block.has THEN "delattr" ELSE "return"]
    /\ UNCHANGED <<animation_state, timer, slider, last_block, shown, control_req, ticks>>
    /\ UNCHANGED <<call, ret>>
    /\ UNCHANGED dataset
    /\ UNCHANGED reads

\* the completion branch: delattr(update_animation, 'last_block'), an
\* AttributeError when a reset has deleted it meanwhile
TickDelattr ==
    /\ tick_req.pending
    /\ tick_req.at = "delattr"
    /\ tick_req' = [tick_req EXCEPT !.at = IF last_block.has THEN "return" ELSE "error"]
    /\ last_block' = NoBlock
    /\ UNCHANGED <<animation_state, timer, shown, control_req, ticks, call, ret, slider>>
    /\ UNCHANGED dataset
    /\ UNCHANGED reads

\* update_animation has returned: the browser writes the store, the text and
\* the charts
TickReturn ==
    /\ tick_req.pending
    /\ tick_req.at = "return"
    /\ \E out \in {update_animation(tick_req.state, tick_req.new_block, max_block)} :
           /\ animation_state' = out.state
           /\ shown' = [day_text |-> out.day_text,
                        chart_block |-> IF out.charts_updated
                                        THEN Block(tick_req.new_block)
                                        ELSE shown.chart_block]
    /\ tick_req' = NoRequest
    /\ UNCHANGED <<timer, last_block, control_req, ticks, call, ret, slider>>
    /\ UNCHANGED dataset
    /\ UNCHANGED reads

\* update_animation has raised: no Output is written
TickFailed ==
    /\ tick_req.pending
    /\ tick_req.at = "error"
    /\ tick_req' = NoRequest
    /\ UNCHANGED <<animation_state, timer, slider, last_block, shown, control_req, ticks>>
    /\ UNCHANGED <<call, ret>>
    /\ UNCHANGED dataset
    /\ UNCHANGED reads

AnimNext ==
    \/ \E button_id \in Buttons, speed \in Speeds : ControlTrigger(button_id, speed)
    \/ ControlHasattr
    \/ ControlDelattr
    \/ ControlReturn
    \/ ControlFailed
    \/ TickTrigger
    \/ TickThrottled
    \/ TickNotPlaying
    \/ TickAdvance(TRUE)
    \/ TickCompare
    \/ TickStore
    \/ TickHasattr
    \/ TickDelattr
    \/ TickReturn
    \/ TickFailed

\* the callbacks interleaved, at most one of each in flight
AnimSpec == AnimInit /\ [][AnimNext]_vars

\* the controller left to play
PlayInit ==
    /\ \E blocks \in PlayBlockColumns : LoadFrame(TRUE, blocks)
    /\ call = NoCall
    /\ ret = NoResult
    /\ reads = [r \in Readers |-> Idle(FALSE)]
    /\ ControllerInit

\* Play is clicked or the slider moved
PlayControl ==
    \E button_id \in {"play-button", "speed-slider"}, speed \in Speeds :
        ControlTrigger(button_id, speed)

\* a step of a tick that is not throttled
PlayTick ==
    \/ TickTrigger
    \/ TickNotPlaying
    \/ TickAdvance(FALSE)
    \/ TickCompare
    \/ TickStore
    \/ TickHasattr
    \/ TickDelattr
    \/ TickReturn

PlayNext ==
    \/ PlayControl
    \/ ControlReturn
    \/ PlayTick

\* the animation left to play: no pause, no reset, no throttling; the
\* enabled timer keeps firing and the server runs every callback to its
\* return
PlaySpec ==
    PlayInit /\ [][PlayNext]_vars /\ WF_vars(PlayTick) /\ WF_vars(ControlReturn)

(***************************************************************************)
(* Properties                                                              *)
(***************************************************************************)
\* the target of the call whose result is in ret
Target == call.current_block

NumRows == Len(data)

\* no two rows share a block (the dataset the design assumes)
DistinctBlocks == \A i \in 1..(NumRows - 1) : data[i].block < data[i + 1].block

\* the target lies within [min_block, max_block] of a non-empty frame
InRange == NumRows > 0 /\ data[1].block <= Target /\ Target <= data[NumRows].block

\* the row an exhaustive scan for minimal |block - target| selects
ScanRow == RowSeries(data, IdxMinAbs(data, 0, NumRows, Target))

\* C1: on a non-empty frame of distinct ascending blocks and an in-range
\* target, get_frame_data returns the row an exhaustive scan for minimal
\* |block - target| returns, and never the empty row.
C1_NearestEqualsScan ==
    (call.op = "get_frame_data" /\ DistinctBlocks /\ InRange)
        => (~ret.series.empty /\ ret.series = ScanRow)

\* C2: on a frame of 2 or more rows (distinct blocks) and an in-range target,
\* the bracket of interpolate_data satisfies idx_before <= idx_after, both
\* within 0..n-1, and block[idx_before] <= target <= block[idx_after].
C2_BracketContainsTarget ==
    (call.op = "interpolate_data" /\ NumRows >= 2 /\ DistinctBlocks /\ InRange)
        => LET b == ret.bracket
           IN  /\ b.idx_before <= b.idx_after
               /\ b.idx_before \in 0..(NumRows - 1)
               /\ b.idx_after \in 0..(NumRows - 1)
               /\ BlockAt(data, b.idx_before) <= Target
               /\ Target <= BlockAt(data, b.idx_after)

\* C3: on a frame of 2 or more rows (distinct blocks), for any target, the
\* bracket of interpolate_data never has idx_after < idx_before.
C3_BracketOrdered ==
    (call.op = "interpolate_data" /\ NumRows >= 2 /\ DistinctBlocks)
        => ~(ret.bracket.idx_after < ret.bracket.idx_before)

\* C4: on a frame of 2 or more rows (distinct blocks), a target below the
\* first block gives idx_before = idx_after = 0 and the first row's field
\* values; a target above the last block gives the last row's field values.
C4_OutOfRangeClamped ==
    (call.op = "interpolate_data" /\ NumRows >= 2 /\ DistinctBlocks)
        => /\ Target < data[1].block =>
                /\ ret.bracket.idx_before = 0
                /\ ret.bracket.idx_after = 0
                /\ ~ret.series.empty
                /\ ret.series.exchange_rate = Rat(data[1].exchange_rate, 1)
           /\ Target > data[NumRows].block =>
                /\ ~ret.series.empty
                /\ ret.series.exchange_rate = Rat(data[NumRows].exchange_rate, 1)

\* C5: on a frame of 2 or more rows (distinct blocks), interpolate_data at
\* the block of a row r returns r's value for the blended field.
C5_ExactAtRowBlock ==
    (call.op = "interpolate_data" /\ NumRows >= 2 /\ DistinctBlocks)
        => \A i \in 1..NumRows :
               data[i].block = Target =>
                   /\ ~ret.series.empty
                   /\ ret.series.exchange_rate = Rat(data[i].exchange_rate, 1)

\* C6 as claimed: the row returned by interpolate_data has day =
\* floor(target / BLOCKS_PER_DAY) on every return path.  Stated here for the
\* returns that involve no fault (a non-empty row, not the except branch), so
\* that a violation does not rest on the faults of the bracket search.
C6_DayFromTargetEveryPath ==
    (call.op = "interpolate_data" /\ ~ret.series.empty /\ ret.path # "except")
        => ret.series.day = Target \div BLOCKS_PER_DAY

\* the series is a row stored in the frame, with that row's own day
IsStoredRow(series) ==
    \E i \in 0..(NumRows - 1) :
        /\ series = RowSeries(data, i)
        /\ series.day = BlockAt(data, i) \div BLOCKS_PER_DAY

\* C6 as amended: the row synthesized by the blending path of interpolate_data
\* has block = target and day = floor(target / BLOCKS_PER_DAY); every other
\* return path (a frame of 0 or 1 rows, the fallback to get_frame_data)
\* returns the empty row or a stored row carrying its own stored day.
C6_DayFromTargetOnBlend ==
    call.op = "interpolate_data"
        => /\ ret.path = "blend" =>
                /\ ~ret.series.empty
                /\ ret.series.block = Target
                /\ ret.series.day = Target \div BLOCKS_PER_DAY
           /\ ret.path # "blend" => (ret.series.empty \/ IsStoredRow(ret.series))

\* C6 witness: a blend whose target lies in another day than the 'before' row
C6_Witness ==
    /\ call.op = "interpolate_data"
    /\ ret.path = "blend"
    /\ ret.series.day # data[ret.bracket.idx_before + 1].day
    /\ ret.series.day > 0

\* the lower and upper bound of the chart window around the target
WindowLower == Max(0, Target - CHART_WINDOW_SIZE \div 2)

WindowUpper == Min(max_block, Target + CHART_WINDOW_SIZE \div 2)

\* C7: every row of the window returned by optimize_chart_data has its block
\* in [max(0, B - W/2), min(M, B + W/2)], and start_block / end_block are
\* exactly these bounds.
C7_WindowWithinBounds ==
    (call.op = "optimize_chart_data" /\ ~ret.raised)
        => /\ ret.start_block = WindowLower
           /\ ret.end_block = WindowUpper
           /\ \A j \in 1..Len(ret.window_data) :
                  /\ BlockAt(data, ret.window_data[j]) >= WindowLower
                  /\ BlockAt(data, ret.window_data[j]) <= WindowUpper

\* C7 witness: a non-empty window that leaves out rows on both sides
C7_Witness ==
    /\ call.op = "optimize_chart_data"
    /\ ~ret.raised
    /\ Len(ret.window_data) > 0
    /\ \E i \in 1..NumRows : data[i].block < WindowLower
    /\ \E i \in 1..NumRows : data[i].block > WindowUpper

\* C8: the window returned by optimize_chart_data never has more than
\* MAX_DATA_POINTS_PER_CHART rows.
C8_AtMostMaxPoints ==
    (call.op = "optimize_chart_data" /\ ~ret.raised)
        => Len(ret.window_data) <= MAX_DATA_POINTS_PER_CHART

\* s is strictly increasing
Increasing(s) == \A j \in 1..(Len(s) - 1) : s[j] < s[j + 1]

\* C9: downsampling keeps every k-th row of the filtered window, k =
\* floor(count / max_points), starting with the first: the result is a
\* subsequence in the same ascending order, has at least 1 row when the
\* filtered window is non-empty, and is the filtered window itself when
\* count <= max_points.
C9_StrideDownsampling ==
    (call.op = "optimize_chart_data" /\ ~ret.raised)
        => LET f == ret.filtered
               w == ret.window_data
               k == Len(f) \div MAX_DATA_POINTS_PER_CHART
           IN  /\ Len(f) <= MAX_DATA_POINTS_PER_CHART => w = f
               /\ Len(f) > MAX_DATA_POINTS_PER_CHART =>
                      /\ \A j \in 1..Len(w) :
                             (j - 1) * k + 1 <= Len(f) /\ w[j] = f[(j - 1) * k + 1]
                      /\ \A m \in 0..(Len(f) - 1) : m % k = 0 => m \div k + 1 <= Len(w)
               /\ Len(f) > 0 => Len(w) >= 1
               /\ Increasing(w)
               /\ \A j \in 1..(Len(w) - 1) :
                      BlockAt(data, w[j]) <= BlockAt(data, w[j + 1])
               /\ \A j \in 1..Len(w) : \E m \in 1..Len(f) : f[m] = w[j]

\* C9 witness: a filtered window large enough for a stride of 2
C9_Witness ==
    /\ call.op = "optimize_chart_data"
    /\ ~ret.raised
    /\ Len(ret.filtered) \div MAX_DATA_POINTS_PER_CHART >= 2
    /\ Len(ret.window_data) < Len(ret.filtered)

\* C10: on a frame of zero rows every lookup returns its defined empty result
\* for every target: the empty row, a window of zero rows with its bounds, the
\* 'no value' marker.
C10_EmptyFrameLookups ==
    NumRows = 0
        => /\ call.op = "get_frame_data" => ret.series = EmptySeries
           /\ call.op = "interpolate_data" => ret.series = EmptySeries
           /\ call.op = "find_current_value" => ret = NoValue
           /\ call.op = "optimize_chart_data" =>
                  /\ ~ret.raised
                  /\ ret.window_data = <<>>
                  /\ ret.start_block = WindowLower
                  /\ ret.end_block = WindowUpper
                  /\ ret.current_value = NoValue

\* C10 witness: the window of an empty frame, at a target above the window width
C10_Witness ==
    /\ NumRows = 0
    /\ call.op = "optimize_chart_data"
    /\ ret.current_value = NoValue
    /\ ret.start_block > 0

\* C11: on a single-row frame, for every target (below, at or above the
\* row's block, also many intervals away), get_frame_data and
\* interpolate_data both return that one row.
C11_SingleRowEveryTarget ==
    NumRows = 1
        => /\ call.op = "get_frame_data" => ret.series = RowSeries(data, 0)
           /\ call.op = "interpolate_data" => ret.series = RowSeries(data, 0)

\* C11 witness: interpolate_data on a single row, the target more than two
\* interval estimates above the row's block
C11_Witness ==
    /\ NumRows = 1
    /\ call.op = "interpolate_data"
    /\ Target > data[1].block + 2 * data_block_interval
    /\ ~ret.series.empty

\* C11 witness for the nearest-row lookup, on its exhaustive-scan path
C11_WitnessNearest ==
    /\ NumRows = 1
    /\ call.op = "get_frame_data"
    /\ ret.path = "scan"
    /\ ~ret.series.empty

\* the exact blend of rows i and i+1 (1-based) at the target
BlendOfPair(i) ==
    Rat(data[i].exchange_rate * (data[i + 1].block - data[i].block)
            + (Target - data[i].block) * (data[i + 1].exchange_rate - data[i].exchange_rate),
        data[i + 1].block - data[i].block)

\* C12: on a frame of 2 or more rows (distinct blocks) and a target strictly
\* between the blocks of consecutive rows i and i+1, interpolate_data blends
\* exactly these two rows with factor (target - block_i) / (block_i+1 -
\* block_i), and sets block to the target.
C12_BlendsAdjacentRows ==
    (call.op = "interpolate_data" /\ NumRows >= 2 /\ DistinctBlocks)
        => \A i \in 1..(NumRows - 1) :
               (data[i].block < Target /\ Target < data[i + 1].block)
                   => /\ ~ret.series.empty
                      /\ ret.series.block = Target
                      /\ ret.series.exchange_rate = BlendOfPair(i)

\* C13: when the interpolation path of interpolate_data fails, the call
\* returns the result of get_frame_data at the same target, and the error has
\* been logged.
C13_FallbackToNearestLogged ==
    (call.op = "interpolate_data" /\ ret.path = "except")
        => /\ ret.error_logged
           /\ ret.series = get_frame_data(data, data_block_interval, Target).series

\* C13 witness: a failed bracket whose fallback found a row
C13_Witness ==
    /\ call.op = "interpolate_data"
    /\ ret.path = "except"
    /\ ret.bracket.idx_before > NumRows - 1
    /\ ~ret.series.empty

\* C14: when two rows (distinct blocks) are equidistant from the target and
\* nearest to it, get_frame_data returns the lower-indexed one.
C14_TieToLowerIndex ==
    (call.op = "get_frame_data" /\ DistinctBlocks)
        => \A i \in 1..(NumRows - 1) :
               (/\ data[i].block < Target
                /\ Target < data[i + 1].block
                /\ Target - data[i].block = data[i + 1].block - Target)
                   => ret.series = RowSeries(data, i - 1)

\* exactly one row is at minimal distance from the target
UniqueNearest ==
    /\ NumRows > 0
    /\ \A j \in 0..(NumRows - 1) :
           j # IdxMinAbs(data, 0, NumRows, Target)
               => Abs(BlockAt(data, j) - Target) > Abs(ScanRow.block - Target)

\* C15: on a non-empty frame (distinct blocks, a single nearest row), the
\* marker of find_current_value is the nearest row: its block is the block
\* of the row of minimal |block - target| and its value that row's value.
C15_MarkerIsNearestRow ==
    (call.op = "find_current_value" /\ DistinctBlocks /\ UniqueNearest)
        => /\ ~ret.none
           /\ ret.block = ScanRow.block
           /\ Rat(ret.value, 1) = ScanRow.exchange_rate

\* the differences between consecutive blocks of the frame
SortedDiffs == {data[i + 1].block - data[i].block : i \in 1..(NumRows - 1)}

\* how many consecutive pairs of the frame are v apart
DiffCount(v) ==
    Cardinality({i \in 1..(NumRows - 1) : data[i + 1].block - data[i].block = v})

\* C16: the frame handed to the lookups carries an interval estimate in its
\* attrs: on a frame of 2 or more rows a most frequent difference between
\* consecutive blocks in sorted order (the smallest one when several are
\* equally frequent), and 1000 on a frame of fewer than 2 rows.
C16_IntervalIsModeOfDiffs ==
    /\ \E p \in attrs : p[1] = "block_interval"
    /\ \A p \in attrs :
           p[1] = "block_interval" =>
               /\ NumRows < 2 => p[2] = 1000
               /\ NumRows >= 2 =>
                      /\ p[2] \in SortedDiffs
                      /\ \A v \in SortedDiffs :
                             /\ DiffCount(v) <= DiffCount(p[2])
                             /\ DiffCount(v) = DiffCount(p[2]) => p[2] <= v

\* C17: whatever the order of the rows in the file, the frame holds exactly
\* the rows of the file, ascending by block, and the row at position i is
\* labelled i.
C17_SortedDenseLabels ==
    /\ NumRows = Len(raw)
    /\ \A k \in 1..Len(raw) :
           \E i \in 1..NumRows :
               data[i].block = raw[k] /\ data[i].exchange_rate = RateAt(k - 1)
    /\ \A i \in 1..(NumRows - 1) : data[i].block <= data[i + 1].block
    /\ \A i \in 1..NumRows : data[i].label = i - 1

\* C17 witness: a lookup that found a row on a frame built from a file whose
\* rows are out of order
C17_Witness ==
    /\ ~IsSorted(raw)
    /\ NumRows >= 3
    /\ call.op = "get_frame_data"
    /\ ~ret.series.empty

\* C18: a frame of zero rows returned by load_data exposes the fields of a
\* frame built from a file with rows: the file's columns, the derived day and
\* net_alpha_points_flow columns, and the block_interval attribute.
C18_EmptyFrameFullFields ==
    NumRows = 0
        => /\ frame.columns = load_data_frame(TRUE).columns
           /\ "day" \in frame.columns
           /\ "net_alpha_points_flow" \in frame.columns
           /\ "block_interval" \in frame.attrs

\* thread r holds the result of a lookup that has run to its end
AtReturn(r) == reads[r].pc = "return"

\* the lookup op applied to the frame d with attrs a, the target t and, for
\* optimize_chart_data, max_block mb
LookupOf(op, d, a, t, mb) ==
    LET iv == attrs_get(a, "block_interval", DEFAULT_BLOCK_INTERVAL)
    IN  IF op = "get_frame_data" THEN get_frame_data(d, iv, t)
        ELSE IF op = "interpolate_data" THEN interpolate_data(d, iv, t)
        ELSE IF op = "optimize_chart_data" THEN optimize_chart_data(d, iv, t, mb)
        ELSE find_current_value(d, iv, t)

\* C19: with the lookups running in threads, interleaved step by step, no
\* step changes the rows of the frame, their order, its attrs (the interval
\* estimate) or max_block; two lookups of the same kind with the same target
\* return the same result whatever ran before them or between their steps;
\* and the result is the lookup applied to the frame as it was constructed
\* from the file, and the target.
C19_ReadsArePure ==
    /\ [][/\ data' = data
          /\ attrs' = attrs
          /\ block_interval' = block_interval
          /\ max_block' = max_block]_vars
    /\ [](\A r, q \in Readers :
              (/\ AtReturn(r)
               /\ AtReturn(q)
               /\ reads[r].op = reads[q].op
               /\ reads[r].current_block = reads[q].current_block)
                  => reads[r].result = reads[q].result)
    /\ [](\A r \in Readers :
              AtReturn(r) =>
                  reads[r].result =
                      LookupOf(reads[r].op, preprocess(load_data(raw)),
                               main_attrs(frame.found, raw), reads[r].current_block,
                               MaxBlockOf(BlocksOf(preprocess(load_data(raw))))))

\* C19 witness: a thread that has run a lookup before holds the blend of its
\* next one, computed while optimize_chart_data in another thread is between
\* its window and its marker
C19_Witness ==
    \E r, q \in Readers :
        /\ r # q
        /\ AtReturn(r)
        /\ reads[r].earlier
        /\ reads[r].op = "interpolate_data"
        /\ reads[r].result.path = "blend"
        /\ reads[q].op = "optimize_chart_data"
        /\ reads[q].pc = "marker_rows"

\* C20: no lookup raises to its caller, on any frame and any target:
\* optimize_chart_data returns its window, get_frame_data and
\* interpolate_data a series, find_current_value a marker or none.
C20_NoFaultReachesCaller ==
    /\ call.op = "optimize_chart_data" => ~ret.raised
    /\ call.op \in {"get_frame_data", "interpolate_data"} => ret.series.empty \in BOOLEAN
    /\ call.op = "find_current_value" => ret.none \in BOOLEAN

\* C21: on a frame of 2 or more rows (distinct blocks) and a target within
\* [first block, last block], the factor interpolate_data blends with lies
\* in [0, 1].
C21_FactorInUnitInterval ==
    (/\ call.op = "interpolate_data"
     /\ NumRows >= 2
     /\ DistinctBlocks
     /\ InRange
     /\ ret.path = "blend")
        => /\ ret.factor.num >= 0
           /\ ret.factor.num <= ret.factor.den

\* the blocks of the two bracket rows of an interpolation that blended
BlockBefore == BlockAt(data, ret.bracket.idx_before)

BlockAfter == BlockAt(data, ret.bracket.idx_after)

\* C22: when the two bracket rows have the same block, interpolate_data
\* blends with factor 0, and the result carries the value of the 'before'
\* row and the target as its block.
C22_SameBlockFactorZero ==
    (call.op = "interpolate_data" /\ ret.path = "blend" /\ BlockBefore = BlockAfter)
        => /\ ret.factor = [num |-> 0, den |-> 1]
           /\ ~ret.series.empty
           /\ ret.series.block = Target
           /\ ret.series.exchange_rate
                  = [num |-> data[ret.bracket.idx_before + 1].exchange_rate, den |-> 1]

\* C22 witness: the target is the block of the last row, which is then both
\* bracket rows
C22_Witness ==
    /\ call.op = "interpolate_data"
    /\ ret.path = "blend"
    /\ NumRows >= 2
    /\ DistinctBlocks
    /\ ret.bracket.idx_before = NumRows - 1
    /\ ret.bracket.idx_after = NumRows - 1
    /\ Target = data[NumRows].block

\* C22 witness: two different rows of the same block are the bracket
C22_WitnessDuplicates ==
    /\ call.op = "interpolate_data"
    /\ ret.path = "blend"
    /\ ret.bracket.idx_before < ret.bracket.idx_after
    /\ BlockBefore = BlockAfter

\* C28: for a target within [first block, last block] of a frame of 2 or
\* more rows (distinct blocks), the window optimize_chart_data filters out of
\* its index slice, before downsampling, holds every row of the frame whose
\* block lies in [start_block, end_block].
C28_SliceKeepsInRangeRows ==
    (/\ call.op = "optimize_chart_data"
     /\ ~ret.raised
     /\ NumRows >= 2
     /\ DistinctBlocks
     /\ InRange)
        => \A i \in 0..(NumRows - 1) :
               (ret.start_block <= BlockAt(data, i) /\ BlockAt(data, i) <= ret.end_block)
                   => \E j \in 1..Len(ret.filtered) : ret.filtered[j] = i

\* the position the store holds
StoredBlock == animation_state.current_block

\* a control_animation response is being written in this step
ControlReturns == control_req.pending /\ control_req.at # "error" /\ control_req' = NoRequest

\* an accepted update_animation has run to its return statement
TickAtReturn == tick_req.pending /\ tick_req.at = "return"

\* the position of that tick reaches max_block
TickCompletes == FLE(FFromInt(max_block), tick_req.new_block)

\* an update_animation response is being written in this step
TickReturns == TickAtReturn /\ tick_req' = NoRequest

\* max(100, (1000 / FPS) / speed) computed apart from the model's operator
ExpectedInterval(speed) ==
    LET period == Rat(1000 * SPEED_STEPS, FPS * speed)
    IN  IF period.num < 100 * period.den THEN Rat(100, 1) ELSE period

\* C23: the timer interval is never below 100 ms, and the interval a
\* control_animation response writes is max(100, (1000 / FPS) / speed) for
\* the speed of the store it writes.
C23_TimerIntervalFloor ==
    /\ [](timer.interval.num >= 100 * timer.interval.den)
    /\ [][ControlReturns => timer'.interval = ExpectedInterval(animation_state'.speed)]_vars

\* C23 witness: after ticks, the slider has been moved to its maximum and the
\* interval is the floor itself
C23_Witness ==
    /\ animation_state.speed = 2 * SPEED_STEPS
    /\ timer.interval = Rat(100, 1)
    /\ ~timer.disabled
    /\ ticks > 0

\* C24: an accepted tick that does not end the animation returns a position
\* at most MAX_BLOCKS_PER_FRAME above the position of the store it read.
C24_TickAdvanceBounded ==
    (TickAtReturn /\ ~TickCompletes)
        => FLE(tick_req.new_block,
               FAdd(tick_req.state.current_block, FFromInt(MAX_BLOCKS_PER_FRAME)))

\* C25: the stored position is 0, or at least 0 and below max_block; a tick
\* whose new position reaches max_block returns playing False and position 0
\* and has left update_animation without last_block.
C25_StoredBlockInRange ==
    /\ \/ StoredBlock = FZero
       \/ ~FLE(FFromInt(max_block), StoredBlock)
    /\ (TickAtReturn /\ TickCompletes)
           => /\ ~update_animation(tick_req.state, tick_req.new_block, max_block).state.playing
              /\ update_animation(tick_req.state, tick_req.new_block,
                                  max_block).state.current_block = FZero
              /\ ~last_block.has

\* C25 witness: a tick on a frame with rows reached max_block and is about to
\* write its store
C25_Witness ==
    /\ TickAtReturn
    /\ TickCompletes
    /\ NumRows >= 2
    /\ tick_req.state.playing

\* C26: the timer is disabled exactly when the store has playing False.
C26_TimerDisabledIffNotPlaying ==
    timer.disabled <=> ~animation_state.playing

\* C27: left to play with max_block > 0, every accepted tick that does not
\* end the animation writes a position above the one it read, and the
\* animation ends: playing False, position 0, "Simulation Complete".
C27_PlaysToCompletion ==
    /\ [][(TickReturns /\ max_block > 0 /\ animation_state'.playing)
              => ~FLE(animation_state'.current_block, tick_req.state.current_block)]_vars
    /\ (animation_state.playing /\ max_block > 0)
           ~> (/\ ~animation_state.playing
               /\ StoredBlock = FZero
               /\ shown.day_text.kind = "complete")

\* C29: on a frame with rows, the stored position changes only when a reset
\* or an accepted tick writes its response; a tick that is throttled or not
\* playing leaves the store, the timer and the page as they are.
C29_BlockChangesOnlyByResetOrTick ==
    [][/\ (NumRows >= 2 /\ StoredBlock' # StoredBlock)
          => \/ TickReturns
             \/ ControlReturns /\ control_req.button_id = "reset-button"
       /\ (tick_req.pending /\ tick_req.at = "sent" /\ tick_req' = NoRequest)
          => UNCHANGED <<animation_state, timer, shown>>]_vars

\* C30: on a frame with rows, while the last write of control_animation is
\* playing False (the timer is disabled) and no click is in flight, a tick
\* response leaves the store at playing False and at its position.
C30_PauseNotUndoneByTick ==
    [][(NumRows >= 2 /\ timer.disabled /\ control_req = NoRequest /\ TickReturns)
           => /\ ~animation_state'.playing
              /\ animation_state'.current_block = StoredBlock]_vars

====
